---- MODULE Spec2Model ----
(***************************************************************************)
(* The LangGraph workflow of langgraph_app.py: classify_intent -> agent -> *)
(* {execute_tools -> END} | END, with the textual tool-call protocol that  *)
(* execute_tools parses and the MCPToolRunner that dispatches the call.    *)
(*                                                                         *)
(* Python strings are sequences of one-character strings, so that          *)
(* startswith, split, isdigit, lower and the `in` test are computed the    *)
(* way the code computes them.  Two characters are written with more than  *)
(* one letter: "(x)" is U+274C (the cross mark of the error texts) and     *)
(* "^2" is U+00B2 (superscript two: str.isdigit() accepts it, int()        *)
(* rejects it).                                                            *)
(***************************************************************************)
EXTENDS Integers, Sequences, FiniteSets, TLC

VARIABLES
    pc,           \* node the run is about to execute, "END", or "raised"
    messages,     \* GraphState["messages"]
    user_intent,  \* GraphState["user_intent"]
    input,        \* the messages the caller passed to the compiled workflow
    executed,     \* the nodes executed so far, in order
    error,        \* the exception that escaped the run ("none" if none)
    llm,          \* what llm.invoke did: "idle", "responded" or "raised"
    tool_call,    \* the call made at line 126: [called, name, args]
    tool,         \* what the tool capability did: [status, cause]
    tool_result,  \* the local tool_result of execute_tools
    request,      \* round trip: the ToolCallRequest to encode
    line,         \* round trip: the encoded line
    decoded,      \* round trip: what the executor's parser made of the line
    cpc,          \* round trip: "idle", "encode", "decode" or "done"
    runs          \* concurrent runs: the state of each run of the compiled workflow

wfvars == <<pc, messages, user_intent, input, executed, error, llm,
            tool_call, tool, tool_result>>
codecvars == <<request, line, decoded, cpc>>
vars == <<pc, messages, user_intent, input, executed, error, llm,
          tool_call, tool, tool_result, request, line, decoded, cpc, runs>>

---------------------------------------------------------------------------
(* Bounds of the model *)

\* longest argument list the modelled language model emits after the tool name
MaxArgs == 2
\* number of fragments an utterance given to the classifier alone is built from
MaxWords == 2
\* number of key=value pairs of a request of the round trip
MaxPairs == 2

---------------------------------------------------------------------------
(* Python str operations *)

\* s.startswith(p)
StartsWith(s, p) == Len(s) >= Len(p) /\ SubSeq(s, 1, Len(p)) = p

\* sub in s
Contains(s, sub) ==
    \E i \in 0..(Len(s) - Len(sub)) : SubSeq(s, i + 1, i + Len(sub)) = sub

\* s.find(c) + 1 for a one-character c: the first position of c, 0 if absent
IndexOf(s, c) ==
    IF \E i \in 1..Len(s) : s[i] = c
    THEN CHOOSE i \in 1..Len(s) : s[i] = c /\ \A j \in 1..(i - 1) : s[j] # c
    ELSE 0

\* s.split(d) for a one-character d
RECURSIVE Split(_, _)
Split(s, d) ==
    LET i == IndexOf(s, d)
    IN  IF i = 0 THEN <<s>>
        ELSE <<SubSeq(s, 1, i - 1)>> \o Split(SubSeq(s, i + 1, Len(s)), d)

UpperAlpha == <<"A", "B", "C", "D", "E", "F", "G", "H", "I", "J", "K", "L", "M", "N", "O", "P", "Q", "R", "S", "T", "U", "V", "W", "X", "Y", "Z">>
LowerAlpha == <<"a", "b", "c", "d", "e", "f", "g", "h", "i", "j", "k", "l", "m", "n", "o", "p", "q", "r", "s", "t", "u", "v", "w", "x", "y", "z">>

LowerChar(c) ==
    IF \E i \in 1..26 : UpperAlpha[i] = c
    THEN LowerAlpha[CHOOSE i \in 1..26 : UpperAlpha[i] = c]
    ELSE c

\* s.lower()
RECURSIVE Lower(_)
Lower(s) == IF s = <<>> THEN <<>> ELSE <<LowerChar(Head(s))>> \o Lower(Tail(s))

AsciiDigits == <<"0", "1", "2", "3", "4", "5", "6", "7", "8", "9">>
IsAsciiDigit(c) == \E i \in 1..10 : AsciiDigits[i] = c
DigitValue(c) == (CHOOSE i \in 1..10 : AsciiDigits[i] = c) - 1

\* the characters str.isdigit() accepts: the decimal digits and, among
\* others, the superscript digits
IsDigitChar(c) == IsAsciiDigit(c) \/ c = "^2"

\* s.isdigit(): non-empty and every character a digit
IsDigit(s) == s # <<>> /\ \A i \in 1..Len(s) : IsDigitChar(s[i])

\* int(s) raises ValueError unless s is a decimal literal
IntParses(s) == s # <<>> /\ \A i \in 1..Len(s) : IsAsciiDigit(s[i])

\* int(s) for a string of decimal digits
RECURSIVE ParseInt(_)
ParseInt(s) ==
    IF s = <<>> THEN 0
    ELSE 10 * ParseInt(SubSeq(s, 1, Len(s) - 1)) + DigitValue(s[Len(s)])

\* str(n) for n >= 0
RECURSIVE NatToStr(_)
NatToStr(n) ==
    IF n < 10 THEN <<AsciiDigits[n + 1]>>
    ELSE NatToStr(n \div 10) \o <<AsciiDigits[(n % 10) + 1]>>

\* str(n)
IntToStr(n) == IF n < 0 THEN <<"-">> \o NatToStr(0 - n) ELSE NatToStr(n)

\* all sequences over S of length at most n
SeqsUpTo(S, n) == UNION {[1..k -> S] : k \in 0..n}

---------------------------------------------------------------------------
(* Messages and argument values *)

HumanMessage(c) == [type |-> "HumanMessage", content |-> c]
AIMessage(c) == [type |-> "AIMessage", content |-> c]
\* a bare str put in the messages list (line 133): it has no .content
RawStr(c) == [type |-> "str", content |-> c]

\* an argument value: a Python str or a Python int
StrVal(s) == [t |-> "str", s |-> s, n |-> 0]
IntVal(n) == [t |-> "int", s |-> <<>>, n |-> n]

\* messages[-1]
Last(msgs) == msgs[Len(msgs)]

\* GraphState declares messages as Annotated[list, "<a description>"]: the
\* annotation is a string, not a reducer, so the channel keeps the last value
\* written and a node's {"messages": [...]} replaces the list.
UpdateMessages(old, new) == new

---------------------------------------------------------------------------
(* classify_user_intent *)

NewsWords == {<<"n", "e", "w", "s">>, <<"m", "a", "r", "k", "e", "t", "i", "n", "g">>, <<"c", "o", "m", "p", "a", "n", "y">>, <<"b", "u", "s", "i", "n", "e", "s", "s">>}
DiceWords == {<<"d", "i", "c", "e">>, <<"r", "o", "l", "l">>, <<"g", "a", "m", "e">>, <<"r", "a", "n", "d", "o", "m">>}
SearchWords == {<<"s", "e", "a", "r", "c", "h">>, <<"w", "e", "b">>, <<"l", "o", "o", "k", " ", "u", "p">>, <<"f", "i", "n", "d">>}

\* any(word in last_message for word in words)
AnyWordIn(words, last_message) == \E word \in words : Contains(last_message, word)

\* the dice keywords tested before the news keywords
ClassifyText_DiceFirst(content) ==
    LET last_message == Lower(content)
    IN  IF AnyWordIn(DiceWords, last_message) THEN "dice"
        ELSE IF AnyWordIn(NewsWords, last_message) THEN "news"
        ELSE IF AnyWordIn(SearchWords, last_message) THEN "search"
        ELSE "general"

ClassifyText(content) ==
    LET last_message == Lower(content)
    IN  IF AnyWordIn(NewsWords, last_message) THEN "news"
        ELSE IF AnyWordIn(DiceWords, last_message) THEN "dice"
        ELSE IF AnyWordIn(SearchWords, last_message) THEN "search"
        ELSE "general"

---------------------------------------------------------------------------
(* The tool-call protocol as execute_tools parses it *)

TOOL_CALL_PREFIX == <<"T", "O", "O", "L", "_", "C", "A", "L", "L", ":">>

\* key, value = part.split("=", 1)
PartKey(part) == SubSeq(part, 1, IndexOf(part, "=") - 1)
PartValue(part) == SubSeq(part, IndexOf(part, "=") + 1, Len(part))

\* the value kept as the string it is, without the numeric conversion
Coerce_NoInt(value) == StrVal(value)

\* lines 120-123: int(value) if value.isdigit() else value
Coerce(value) == IF IsDigit(value) THEN IntVal(ParseInt(value)) ELSE StrVal(value)

\* int(value) at line 121 raises ValueError
CoerceRaises(value) == IsDigit(value) /\ ~IntParses(value)

\* the dict built from parts[1:], the tool name taken for a pair
RECURSIVE ParseArgs_FromName(_, _)
ParseArgs_FromName(parts, n) ==
    IF n <= 1 THEN <<>>
    ELSE LET prev == ParseArgs_FromName(parts, n - 1)
             part == parts[n]
         IN  IF Contains(part, <<"=">>)
             THEN (PartKey(part) :> Coerce(PartValue(part))) @@ prev
             ELSE prev

\* lines 115-123: the dict built from parts[2:], later pairs overwriting
RECURSIVE ParseArgs(_, _)
ParseArgs(parts, n) ==
    IF n <= 2 THEN <<>>
    ELSE LET prev == ParseArgs(parts, n - 1)
             part == parts[n]
         IN  IF Contains(part, <<"=">>)
             THEN (PartKey(part) :> Coerce(PartValue(part))) @@ prev
             ELSE prev

ParseRaises(parts) ==
    \E n \in 3..Len(parts) :
        Contains(parts[n], <<"=">>) /\ CoerceRaises(PartValue(parts[n]))

\* lines 111-123: [tool_name, args] of a line that starts with TOOL_CALL:
Decode(last_message) ==
    LET parts == Split(last_message, ":")
    IN  [tool_name |-> parts[2], args |-> ParseArgs(parts, Len(parts))]

DecodeRaises(last_message) == ParseRaises(Split(last_message, ":"))

\* the tool branch taken whatever the message is
ShouldContinue_Always(msgs) == "execute_tools"

\* the sentinel looked for without the delimiter after it
ShouldContinue_Sentinel(msgs) ==
    IF StartsWith(Last(msgs).content, <<"T", "O", "O", "L", "_", "C", "A", "L", "L">>) THEN "execute_tools" ELSE "END"

\* the sentinel looked for anywhere in the content
ShouldContinue_Anywhere(msgs) ==
    IF Contains(Last(msgs).content, TOOL_CALL_PREFIX) THEN "execute_tools" ELSE "END"

\* should_continue
ShouldContinue(msgs) ==
    IF StartsWith(Last(msgs).content, TOOL_CALL_PREFIX) THEN "execute_tools" ELSE "END"


---------------------------------------------------------------------------
(* MCPToolRunner.call_tool and the tools of server.py *)

WEB_SEARCH == <<"w", "e", "b", "_", "s", "e", "a", "r", "c", "h">>
ROLL_DICE == <<"r", "o", "l", "l", "_", "d", "i", "c", "e">>
GET_MARKETING_NEWS == <<"g", "e", "t", "_", "m", "a", "r", "k", "e", "t", "i", "n", "g", "_", "n", "e", "w", "s">>
GET_COMPANY_NEWS == <<"g", "e", "t", "_", "c", "o", "m", "p", "a", "n", "y", "_", "n", "e", "w", "s">>

RegisteredTools == {WEB_SEARCH, ROLL_DICE, GET_MARKETING_NEWS, GET_COMPANY_NEWS}

\* the parameters of each tool function of server.py
Params(tool_name) ==
    IF tool_name = WEB_SEARCH THEN {<<"q", "u", "e", "r", "y">>}
    ELSE IF tool_name = ROLL_DICE THEN {<<"n", "o", "t", "a", "t", "i", "o", "n">>, <<"n", "u", "m", "_", "r", "o", "l", "l", "s">>}
    ELSE IF tool_name = GET_MARKETING_NEWS
         THEN {<<"c", "o", "m", "p", "a", "n", "y">>, <<"c", "a", "t", "e", "g", "o", "r", "y">>, <<"n", "u", "m", "_", "a", "r", "t", "i", "c", "l", "e", "s">>}
    ELSE IF tool_name = GET_COMPANY_NEWS THEN {<<"c", "o", "m", "p", "a", "n", "y">>, <<"n", "u", "m", "_", "a", "r", "t", "i", "c", "l", "e", "s">>}
    ELSE {}

\* the parameters without a default
Required(tool_name) ==
    IF tool_name = WEB_SEARCH THEN {<<"q", "u", "e", "r", "y">>}
    ELSE IF tool_name = ROLL_DICE THEN {<<"n", "o", "t", "a", "t", "i", "o", "n">>}
    ELSE IF tool_name = GET_COMPANY_NEWS THEN {<<"c", "o", "m", "p", "a", "n", "y">>}
    ELSE {}

\* tool(**kwargs) binds: no unknown keyword, no required parameter missing
Binds(tool_name, kwargs) ==
    /\ DOMAIN kwargs \subseteq Params(tool_name)
    /\ Required(tool_name) \subseteq DOMAIN kwargs

\* str(e) of the TypeError Python raises when the keywords do not bind
TypeErrorText == <<"T", "y", "p", "e", "E", "r", "r", "o", "r">>

\* What the capability behind a registered tool does when it is reached: it
\* returns a text, or the import of server or the tool itself raises.
ReturnTexts == {<<"o", "k">>}
FaultCauses == {<<"b", "o", "o", "m">>}

Returns(text) == [raises |-> FALSE, text |-> text]
Raises(cause) == [raises |-> TRUE, text |-> cause]
NoCapability == [raises |-> FALSE, text |-> <<>>]

Capabilities(tool_name) ==
    IF tool_name \in RegisteredTools
    THEN {Returns(t) : t \in ReturnTexts} \cup {Raises(c) : c \in FaultCauses}
    ELSE {NoCapability}

\* the exception raised inside the try block of call_tool, if any: "" if none
RaisedInTool(tool_name, kwargs, capability) ==
    IF tool_name \notin RegisteredTools THEN <<>>
    ELSE IF capability.raises THEN capability.text
    ELSE IF ~Binds(tool_name, kwargs) THEN TypeErrorText
    ELSE <<>>

\* the not-found text without the tool name
NotFoundText_NoName(tool_name) == <<"(x)", " ", "T", "o", "o", "l", " ", "n", "o", "t", " ", "f", "o", "u", "n", "d">>

\* the error text without str(e)
ErrorText_NoCause(tool_name, cause) == <<"(x)", " ", "E", "r", "r", "o", "r", " ", "c", "a", "l", "l", "i", "n", "g", " ", "M", "C", "P", " ", "t", "o", "o", "l", " ">> \o tool_name

NotFoundText(tool_name) == <<"(x)", " ", "T", "o", "o", "l", " ">> \o tool_name \o <<" ", "n", "o", "t", " ", "f", "o", "u", "n", "d">>
ErrorText(tool_name, cause) ==
    <<"(x)", " ", "E", "r", "r", "o", "r", " ", "c", "a", "l", "l", "i", "n", "g", " ", "M", "C", "P", " ", "t", "o", "o", "l", " ">> \o tool_name \o <<":", " ">> \o cause

\* MCPToolRunner.call_tool: the text it returns
CallTool(tool_name, kwargs, capability) ==
    IF tool_name \in RegisteredTools
    THEN IF RaisedInTool(tool_name, kwargs, capability) # <<>>
         THEN ErrorText(tool_name, RaisedInTool(tool_name, kwargs, capability))
         ELSE capability.text
    ELSE NotFoundText(tool_name)

\* call_tool(tool_name, **args) at line 126 raises TypeError before the body
\* runs when args has a key that is one of call_tool's own parameters
CallCollides(args) == <<"t", "o", "o", "l", "_", "n", "a", "m", "e">> \in DOMAIN args \/ <<"s", "e", "l", "f">> \in DOMAIN args

\* line 129
ToolResponse(tool_name, result) ==
    <<"I", " ", "u", "s", "e", "d", " ", "t", "h", "e", " ">> \o tool_name \o <<" ", "t", "o", "o", "l", " ", "a", "n", "d", " ", "g", "o", "t", " ", "t", "h", "i", "s", " ", "r", "e", "s", "u", "l", "t", ":", "\n", "\n">> \o result

ToolStatus(tool_name, kwargs, capability) ==
    IF tool_name \notin RegisteredTools THEN "not_found"
    ELSE IF RaisedInTool(tool_name, kwargs, capability) # <<>> THEN "raised"
    ELSE "returned"

---------------------------------------------------------------------------
(* The inputs of a run and the answers of the language model *)

\* the utterances of test_langgraph, and one without any keyword
Utterances ==
    { <<"S", "e", "a", "r", "c", "h", " ", "f", "o", "r", " ", "i", "n", "f", "o", "r", "m", "a", "t", "i", "o", "n", " ", "a", "b", "o", "u", "t", " ", "a", "r", "t", "i", "f", "i", "c", "i", "a", "l", " ", "i", "n", "t", "e", "l", "l", "i", "g", "e", "n", "c", "e">>,
      <<"R", "o", "l", "l", " ", "2", "d", "6", " ", "d", "i", "c", "e", " ", "f", "o", "r", " ", "m", "e">>,
      <<"G", "e", "t", " ", "m", "a", "r", "k", "e", "t", "i", "n", "g", " ", "n", "e", "w", "s", " ", "a", "b", "o", "u", "t", " ", "Z", "o", "o", "m", "I", "n", "f", "o">>,
      <<"F", "i", "n", "d", " ", "n", "e", "w", "s", " ", "a", "b", "o", "u", "t", " ", "T", "e", "s", "l", "a", " ", "c", "o", "m", "p", "a", "n", "y">>,
      <<"H", "e", "l", "l", "o">> }

\* The compiled workflow is invoked with a list of messages: the single user
\* message of test_langgraph, a longer history, or (a caller's error) none.
Inputs ==
    {<<>>} \cup {<<HumanMessage(u)>> : u \in Utterances}
           \cup {<<AIMessage(<<"H", "i">>), HumanMessage(<<"R", "o", "l", "l", " ", "2", "d", "6", " ", "d", "i", "c", "e", " ", "f", "o", "r", " ", "m", "e">>)>>}

\* tool names the language model may put after the sentinel
EmittedNames == RegisteredTools \cup {<<"n", "o", "n", "e", "x", "i", "s", "t", "e", "n", "t">>, <<>>}

\* the segments the language model may put after the tool name
Segments ==
    { <<"n", "o", "t", "a", "t", "i", "o", "n", "=", "2", "d", "6">>, <<"n", "u", "m", "_", "r", "o", "l", "l", "s", "=", "1">>, <<"n", "u", "m", "_", "r", "o", "l", "l", "s", "=", "0", "0", "7">>, <<"q", "u", "e", "r", "y", "=", "a", "i">>,
      <<"c", "o", "m", "p", "a", "n", "y", "=", "T", "e", "s", "l", "a">>, <<"t", "o", "o", "l", "_", "n", "a", "m", "e", "=", "x">>, <<"n", "=", "^2">>, <<"a", "=", "b", "=", "c">>, <<"/", "/", "x">>, <<>> }

\* ":seg1:seg2..."
RECURSIVE JoinSegments(_)
JoinSegments(segs) ==
    IF segs = <<>> THEN <<>>
    ELSE <<":">> \o Head(segs) \o JoinSegments(Tail(segs))

ToolCallOutputs ==
    { TOOL_CALL_PREFIX \o name \o JoinSegments(segs) :
        name \in EmittedNames, segs \in SeqsUpTo(Segments, MaxArgs) }

PlainOutputs ==
    { <<>>, <<"H", "i">>, <<"T", "O", "O", "L", "_", "C", "A", "L", "L">>, <<"T", "O", "O", "L", "_", "C", "A", "L", "L", "S">>, <<"t", "o", "o", "l", "_", "c", "a", "l", "l", ":", "r", "o", "l", "l", "_", "d", "i", "c", "e">>,
      <<" ", "T", "O", "O", "L", "_", "C", "A", "L", "L", ":", "r", "o", "l", "l", "_", "d", "i", "c", "e">>, <<"U", "s", "e", " ", "T", "O", "O", "L", "_", "C", "A", "L", "L", ":", "r", "o", "l", "l", "_", "d", "i", "c", "e", ":", "n", "o", "t", "a", "t", "i", "o", "n", "=", "2", "d", "6">> }

\* every content llm.invoke may return
LLMOutputs == ToolCallOutputs \cup PlainOutputs

NoCall == [called |-> FALSE, name |-> <<>>, args |-> <<>>]
Call(name, args) == [called |-> TRUE, name |-> name, args |-> args]
ToolIdle == [status |-> "idle", cause |-> <<>>]

---------------------------------------------------------------------------
(* The workflow *)

\* workflow.set_entry_point("classify_intent")
EntryPoint == "classify_intent"
\* workflow.add_edge("classify_intent", "agent")
EdgeFromClassifyIntent == "agent"
\* an edge from execute_tools back to agent
EdgeFromExecuteTools_Loop == "agent"
\* workflow.add_edge("execute_tools", END)
EdgeFromExecuteTools == "END"

WorkflowInit ==
    /\ pc = EntryPoint
    /\ input \in Inputs
    /\ messages = input
    /\ user_intent = "general"
    /\ executed = <<>>
    /\ error = "none"
    /\ llm = "idle"
    /\ tool_call = NoCall
    /\ tool = ToolIdle
    /\ tool_result = <<>>

CodecIdle ==
    /\ request = <<>>
    /\ line = <<>>
    /\ decoded = <<>>
    /\ cpc = "idle"

\* no concurrent runs
RunsIdle == runs = <<>>

Init == WorkflowInit /\ CodecIdle /\ RunsIdle

\* the node raised: the exception leaves the run, which returns no state
Abort(node, exception) ==
    /\ pc' = "raised"
    /\ error' = exception
    /\ executed' = Append(executed, node)
    /\ UNCHANGED <<messages, user_intent>>

\* classify_user_intent taking an empty list for an utterance without keywords
ClassifyIntent_TolerantEmpty ==
    /\ pc = "classify_intent"
    /\ user_intent' = IF messages = <<>> THEN "general"
                      ELSE ClassifyText(Last(messages).content)
    /\ messages' = messages
    /\ executed' = Append(executed, "classify_intent")
    /\ pc' = EdgeFromClassifyIntent
    /\ UNCHANGED <<error, input, llm, tool_call, tool, tool_result, codecvars, runs>>

\* classify_user_intent, then the edge classify_intent -> agent
ClassifyIntent ==
    /\ pc = "classify_intent"
    /\ IF messages = <<>>
       THEN Abort("classify_intent", "IndexError")
       ELSE /\ user_intent' = ClassifyText(Last(messages).content)
            /\ messages' = messages
            /\ executed' = Append(executed, "classify_intent")
            /\ pc' = EdgeFromClassifyIntent
            /\ error' = error
    /\ UNCHANGED <<input, llm, tool_call, tool, tool_result, codecvars, runs>>

\* agent returning the default intent along with its message
AgentResponds_ResetsIntent ==
    /\ pc = "agent"
    /\ \E content \in LLMOutputs :
         /\ messages' = UpdateMessages(messages, <<AIMessage(content)>>)
         /\ pc' = ShouldContinue(messages')
    /\ llm' = "responded"
    /\ executed' = Append(executed, "agent")
    /\ user_intent' = "general"
    /\ UNCHANGED <<input, error, tool_call, tool, tool_result, codecvars, runs>>

\* agent, then the conditional edge should_continue
AgentResponds ==
    /\ pc = "agent"
    /\ \E content \in LLMOutputs :
         /\ messages' = UpdateMessages(messages, <<AIMessage(content)>>)
         /\ pc' = ShouldContinue(messages')
    /\ llm' = "responded"
    /\ executed' = Append(executed, "agent")
    /\ UNCHANGED <<user_intent, input, error, tool_call, tool, tool_result, codecvars, runs>>

\* llm.invoke raises: agent has no handler
AgentFails ==
    /\ pc = "agent"
    /\ llm' = "raised"
    /\ Abort("agent", "ModelError")
    /\ UNCHANGED <<input, tool_call, tool, tool_result, codecvars, runs>>

\* execute_tools, then the edge execute_tools -> END
ExecuteTools ==
    /\ pc = "execute_tools"
    /\ LET last_message == Last(messages).content
           call == Decode(last_message)
       IN  IF StartsWith(last_message, TOOL_CALL_PREFIX)
           THEN IF DecodeRaises(last_message)
                THEN \* int(value) raised at line 121
                     /\ Abort("execute_tools", "ValueError")
                     /\ UNCHANGED <<tool_call, tool, tool_result>>
                ELSE IF CallCollides(call.args)
                THEN \* the call at line 126 raised before call_tool ran
                     /\ Abort("execute_tools", "TypeError")
                     /\ UNCHANGED <<tool_call, tool, tool_result>>
                ELSE \E capability \in Capabilities(call.tool_name) :
                     /\ tool_call' = Call(call.tool_name, call.args)
                     /\ tool' = [status |-> ToolStatus(call.tool_name, call.args, capability),
                                 cause |-> RaisedInTool(call.tool_name, call.args, capability)]
                     /\ tool_result' = CallTool(call.tool_name, call.args, capability)
                     /\ messages' = UpdateMessages(messages,
                            <<AIMessage(ToolResponse(call.tool_name, tool_result'))>>)
                     /\ executed' = Append(executed, "execute_tools")
                     /\ pc' = EdgeFromExecuteTools
                     /\ UNCHANGED <<user_intent, error>>
           ELSE \* line 133: the content itself, a str, becomes the message
                /\ messages' = UpdateMessages(messages, <<RawStr(last_message)>>)
                /\ executed' = Append(executed, "execute_tools")
                /\ pc' = EdgeFromExecuteTools
                /\ UNCHANGED <<user_intent, error, tool_call, tool, tool_result>>
    /\ UNCHANGED <<input, llm, codecvars, runs>>

Next == ClassifyIntent \/ AgentResponds \/ AgentFails \/ ExecuteTools

Spec == Init /\ [][Next]_vars

---------------------------------------------------------------------------
(* The classifier on its own, over utterances built from fragments *)

\* keywords in several spellings, pieces of keywords, and neutral text
Fragments ==
    { <<"n", "e", "w", "s">>, <<"M", "a", "r", "k", "e", "t", "i", "n", "g">>, <<"C", "O", "M", "P", "A", "N", "Y">>, <<"b", "u", "s", "i", "n", "e", "s", "s">>,
      <<"d", "i", "c", "e">>, <<"R", "o", "l", "l">>, <<"g", "a", "m", "e">>, <<"r", "a", "n", "d", "o", "m">>,
      <<"s", "e", "a", "r", "c", "h">>, <<"W", "e", "b">>, <<"l", "o", "o", "k", " ", "u", "p">>, <<"f", "i", "n", "d">>,
      <<"l", "o", "o", "k">>, <<"u", "p">>, <<"n", "e">>, <<"w", "s">>, <<" ">>, <<"x">> }

RECURSIVE Flatten(_)
Flatten(seqs) == IF seqs = <<>> THEN <<>> ELSE Head(seqs) \o Flatten(Tail(seqs))

ClassifierUtterances == {Flatten(ws) : ws \in SeqsUpTo(Fragments, MaxWords)}

ClassifyInit ==
    /\ pc = EntryPoint
    /\ input \in {<<HumanMessage(u)>> : u \in ClassifierUtterances}
    /\ messages = input
    /\ user_intent = "general"
    /\ executed = <<>>
    /\ error = "none"
    /\ llm = "idle"
    /\ tool_call = NoCall
    /\ tool = ToolIdle
    /\ tool_result = <<>>
    /\ CodecIdle
    /\ RunsIdle

SpecClassify == ClassifyInit /\ [][ClassifyIntent]_vars

---------------------------------------------------------------------------
(* The protocol codec: encode a ToolCallRequest, decode it with the parser *)
(* of execute_tools                                                        *)

\* a request: a tool name and key/value pairs with distinct keys
CodecNames == {ROLL_DICE, <<>>, <<"a", ":", "b">>, <<"t", "=", "1">>}
CodecKeys == {<<"k">>, <<>>, <<"a", "=", "b">>, <<"a", ":", "b">>}
CodecValues ==
    { StrVal(<<"2", "d", "6">>), StrVal(<<>>), StrVal(<<"7">>), StrVal(<<"a", "=", "b">>),
      StrVal(<<"a", ":", "b">>), StrVal(<<"^2">>),
      StrVal(<<"7", ":", "x">>), StrVal(<<"a", ":", "k", "=", "z">>),
      IntVal(0), IntVal(10), IntVal(0 - 1) }

Pair(k, v) == [key |-> k, value |-> v]

Requests ==
    { [toolName |-> name, arguments |-> pairs] :
        name \in CodecNames,
        pairs \in { ps \in SeqsUpTo({Pair(k, v) : k \in CodecKeys, v \in CodecValues},
                                    MaxPairs) :
                     \A i, j \in 1..Len(ps) : i # j => ps[i].key # ps[j].key } }

\* str(value) of an argument value
ValueText(v) == IF v.t = "int" THEN IntToStr(v.n) ELSE v.s

RECURSIVE EncodePairs(_)
EncodePairs(pairs) ==
    IF pairs = <<>> THEN <<>>
    ELSE <<":">> \o Head(pairs).key \o <<"=">> \o ValueText(Head(pairs).value)
         \o EncodePairs(Tail(pairs))

\* TOOL_CALL:tool_name:arg1=value1:arg2=value2
Encode(req) == TOOL_CALL_PREFIX \o req.toolName \o EncodePairs(req.arguments)

NotDecoded == [kind |-> "pending", tool_name |-> <<>>, args |-> <<>>]

\* lines 109-123 applied to a text: the request, none, or the ValueError
DecodeText(text) ==
    IF ~StartsWith(text, TOOL_CALL_PREFIX)
    THEN [kind |-> "none", tool_name |-> <<>>, args |-> <<>>]
    ELSE IF DecodeRaises(text)
    THEN [kind |-> "raised", tool_name |-> <<>>, args |-> <<>>]
    ELSE [kind |-> "call", tool_name |-> Decode(text).tool_name,
          args |-> Decode(text).args]

WorkflowIdle ==
    /\ pc = "idle"
    /\ input = <<>>
    /\ messages = <<>>
    /\ user_intent = "general"
    /\ executed = <<>>
    /\ error = "none"
    /\ llm = "idle"
    /\ tool_call = NoCall
    /\ tool = ToolIdle
    /\ tool_result = <<>>

CodecInit ==
    /\ WorkflowIdle
    /\ RunsIdle
    /\ cpc = "encode"
    /\ request \in Requests
    /\ line = <<>>
    /\ decoded = NotDecoded

EncodeRequest ==
    /\ cpc = "encode"
    /\ line' = Encode(request)
    /\ cpc' = "decode"
    /\ UNCHANGED <<request, decoded, wfvars, runs>>

DecodeLine ==
    /\ cpc = "decode"
    /\ decoded' = DecodeText(line)
    /\ cpc' = "done"
    /\ UNCHANGED <<request, line, wfvars, runs>>

CodecNext == EncodeRequest \/ DecodeLine

SpecCodec == CodecInit /\ [][CodecNext]_vars

---------------------------------------------------------------------------
(* The parser of execute_tools on its own, over the texts a message may hold *)

\* every output of the language model, and lines with an empty and a
\* negative value
DecodeTexts ==
    LLMOutputs \cup { <<"T", "O", "O", "L", "_", "C", "A", "L", "L", ":", "r", "o", "l", "l", "_", "d", "i", "c", "e", ":", "n", "o", "t", "a", "t", "i", "o", "n", "=">>,
                      <<"T", "O", "O", "L", "_", "C", "A", "L", "L", ":", "r", "o", "l", "l", "_", "d", "i", "c", "e", ":", "n", "u", "m", "_", "r", "o", "l", "l", "s", "=", "-", "1">>,
                      <<"T", "O", "O", "L", "_", "C", "A", "L", "L", ":", "r", "o", "l", "l", "_", "d", "i", "c", "e", ":", "n", "u", "m", "_", "r", "o", "l", "l", "s", "=", "1", "x">> }

DecodeInit ==
    /\ WorkflowIdle
    /\ RunsIdle
    /\ cpc = "decode"
    /\ request = <<>>
    /\ line \in DecodeTexts
    /\ decoded = NotDecoded

SpecDecode == DecodeInit /\ [][DecodeLine]_vars

---------------------------------------------------------------------------
(* execute_tools on its own, applied to a state whatever its last message *)

ExecutorInputs ==
    {<<AIMessage(c)>> : c \in LLMOutputs}
        \cup {<<HumanMessage(<<"H", "e", "l", "l", "o">>), AIMessage(c)>> : c \in PlainOutputs}

ExecutorInit ==
    /\ pc = "execute_tools"
    /\ input \in ExecutorInputs
    /\ messages = input
    /\ user_intent = "general"
    /\ executed = <<>>
    /\ error = "none"
    /\ llm = "idle"
    /\ tool_call = NoCall
    /\ tool = ToolIdle
    /\ tool_result = <<>>
    /\ CodecIdle
    /\ RunsIdle

SpecExecutor == ExecutorInit /\ [][ExecuteTools]_vars

---------------------------------------------------------------------------
(* Two runs of the one compiled workflow, their nodes interleaved.  Each run *)
(* has its own state dict; llm and tool_runner, which the runs share, hold  *)
(* no state.  What the model and the tool answer to a run is fixed when the *)
(* run starts.                                                               *)

Runs == {1, 2}

RunInputs ==
    { <<>>, <<HumanMessage(<<"R", "o", "l", "l", " ", "2", "d", "6", " ", "d", "i", "c", "e", " ", "f", "o", "r", " ", "m", "e">>)>>, <<HumanMessage(<<"H", "e", "l", "l", "o">>)>> }

RunOutputs ==
    { <<"H", "i">>, <<"T", "O", "O", "L", "_", "C", "A", "L", "L", ":", "r", "o", "l", "l", "_", "d", "i", "c", "e", ":", "n", "o", "t", "a", "t", "i", "o", "n", "=", "2", "d", "6", ":", "n", "u", "m", "_", "r", "o", "l", "l", "s", "=", "1">>,
      <<"T", "O", "O", "L", "_", "C", "A", "L", "L", ":", "n", "o", "n", "e", "x", "i", "s", "t", "e", "n", "t">>, <<"T", "O", "O", "L", "_", "C", "A", "L", "L", ":", "r", "o", "l", "l", "_", "d", "i", "c", "e", ":", "t", "o", "o", "l", "_", "n", "a", "m", "e", "=", "x">> }

\* the answers a run gets: of llm.invoke and of the tool capability
Scripts ==
    [ llm : {Returns(c) : c \in RunOutputs} \cup {Raises(c) : c \in FaultCauses},
      capability : {Returns(t) : t \in ReturnTexts} \cup {Raises(c) : c \in FaultCauses} ]

\* the state app.ainvoke starts a run with
StartState(msgs) ==
    [pc |-> EntryPoint, messages |-> msgs, user_intent |-> "general", error |-> "none"]

\* a run: what it was started with, the answers it gets, and its state
StartOfRun(msgs, script) ==
    [input |-> msgs, script |-> script, state |-> StartState(msgs)]

Raised(st, exception) == [st EXCEPT !.pc = "raised", !.error = exception]

\* classify_user_intent on a run's state
ClassifyNode(st) ==
    IF st.messages = <<>> THEN Raised(st, "IndexError")
    ELSE [st EXCEPT !.user_intent = ClassifyText(Last(st.messages).content),
                    !.pc = EdgeFromClassifyIntent]

\* agent and should_continue on a run's state
AgentNode(st, script) ==
    IF script.llm.raises THEN Raised(st, "ModelError")
    ELSE LET msgs == UpdateMessages(st.messages, <<AIMessage(script.llm.text)>>)
         IN  [st EXCEPT !.messages = msgs, !.pc = ShouldContinue(msgs)]

\* execute_tools on a run's state
ToolsNode(st, script) ==
    LET last_message == Last(st.messages).content
        call == Decode(last_message)
    IN  IF StartsWith(last_message, TOOL_CALL_PREFIX)
        THEN IF DecodeRaises(last_message) THEN Raised(st, "ValueError")
             ELSE IF CallCollides(call.args) THEN Raised(st, "TypeError")
             ELSE [st EXCEPT
                     !.messages = UpdateMessages(st.messages,
                         <<AIMessage(ToolResponse(call.tool_name,
                             CallTool(call.tool_name, call.args,
                                      IF call.tool_name \in RegisteredTools
                                      THEN script.capability ELSE NoCapability)))>>),
                     !.pc = EdgeFromExecuteTools]
        ELSE [st EXCEPT !.messages = UpdateMessages(st.messages, <<RawStr(last_message)>>),
                        !.pc = EdgeFromExecuteTools]

\* the node a run is at, applied to its state
NodeStep(st, script) ==
    IF st.pc = "classify_intent" THEN ClassifyNode(st)
    ELSE IF st.pc = "agent" THEN AgentNode(st, script)
    ELSE IF st.pc = "execute_tools" THEN ToolsNode(st, script)
    ELSE st

Over(st) == st.pc \in {"END", "raised"}

\* one state object for every run
StateOf_Shared(rs, r) == rs[1].state

\* the state a node of run r is given: the run's own
StateOf(rs, r) == rs[r].state

\* a run executed alone, from its start to its end
RECURSIVE RunAlone(_, _)
RunAlone(st, script) ==
    IF Over(st) THEN st ELSE RunAlone(NodeStep(st, script), script)

RunsInit ==
    /\ WorkflowIdle
    /\ CodecIdle
    /\ runs \in [Runs -> {StartOfRun(msgs, script) : msgs \in RunInputs, script \in Scripts}]

\* run r executes its next node
RunNode(r) ==
    /\ ~Over(runs[r].state)
    /\ runs' = [runs EXCEPT ![r].state = NodeStep(StateOf(runs, r), runs[r].script)]
    /\ UNCHANGED <<wfvars, codecvars>>

RunsNext == \E r \in Runs : RunNode(r)

SpecRuns == RunsInit /\ [][RunsNext]_vars

---------------------------------------------------------------------------
(* Properties *)

IsPrefix(a, b) == Len(a) <= Len(b) /\ SubSeq(b, 1, Len(a)) = a

\* the state right after the agent node returned
AfterAgent == llm = "responded" /\ Len(executed) = 2

\* the run ended normally and the compiled workflow returns the state
Returned == pc = "END"

\* C1: when the language-model call of the agent node raises, the run does
\* not terminate abnormally: no exception leaves it.
C1_ModelFailureRecovered == llm = "raised" => (pc # "raised" /\ error = "none")

\* C2: every step of a run keeps the messages it had as a prefix of the
\* messages it has afterwards.
C2_MessagesAppendOnly == [][IsPrefix(messages, messages')]_vars

\* C3: a run started with one user message whose agent output is a tool call
\* executes classify_intent, agent, execute_tools and returns exactly three
\* messages: the user's, the agent's tool call, and the tool result.
C3_ToolRunHasThreeMessages ==
    (Returned /\ Len(input) = 1 /\ tool_call.called) =>
        /\ executed = <<"classify_intent", "agent", "execute_tools">>
        /\ Len(messages) = 3
        /\ messages[1] = input[1]
        /\ messages[2].type = "AIMessage"
        /\ StartsWith(messages[2].content, TOOL_CALL_PREFIX)
        /\ messages[3].type = "AIMessage"
        /\ Contains(messages[3].content, tool_result)

\* C4: a run started with one user message whose agent output is no tool call
\* goes from agent to END and returns exactly two messages: user, agent.
C4_PlainRunHasTwoMessages ==
    (Returned /\ Len(input) = 1 /\ executed = <<"classify_intent", "agent">>) =>
        /\ Len(messages) = 2
        /\ messages[1] = input[1]
        /\ messages[2].type = "AIMessage"
        /\ ~StartsWith(messages[2].content, TOOL_CALL_PREFIX)

\* the sentinel as the specification names it
SENTINEL == <<"T", "O", "O", "L", "_", "C", "A", "L", "L">>

\* C5 as stated: after the agent node the run is routed to execute_tools
\* exactly when the last message begins with the sentinel TOOL_CALL.
C5_RoutesOnSentinel ==
    AfterAgent =>
        ((pc = "execute_tools") <=> StartsWith(Last(messages).content, SENTINEL))

\* C5 amended: after the agent node the run is routed to execute_tools exactly
\* when the last message begins with TOOL_CALL followed by the delimiter ':',
\* and to END for every other content.
C5_RoutesOnSentinelAndDelimiter ==
    AfterAgent =>
        /\ pc \in {"execute_tools", "END"}
        /\ (pc = "execute_tools") <=>
               StartsWith(Last(messages).content, SENTINEL \o <<":">>)

\* an output that begins with the sentinel but not with the delimiter after it
\* has been routed to END
C5_Witness ==
    /\ AfterAgent
    /\ pc = "END"
    /\ StartsWith(Last(messages).content, SENTINEL)

\* C6: the nodes run in the order classify_intent, agent, execute_tools, each
\* at most once; the run is about to execute the node after the last one
\* executed, and after execute_tools it is over.
C6_FixedNodeOrder ==
    /\ IsPrefix(executed, <<"classify_intent", "agent", "execute_tools">>)
    /\ pc = "classify_intent" => executed = <<>>
    /\ pc = "agent" => executed = <<"classify_intent">>
    /\ pc = "execute_tools" => executed = <<"classify_intent", "agent">>
    /\ Len(executed) = 3 => pc \in {"END", "raised"}
    /\ (Len(executed) = 3 /\ error = "none") => pc = "END"

\* a run that executed all three nodes and ended
C6_Witness == Returned /\ Len(executed) = 3

\* C7: when a registered tool raises, call_tool returns a text with the tool
\* name and the cause, execute_tools wraps it in its message, and the run ends
\* normally.
C7_ToolFaultBecomesText ==
    tool.status = "raised" =>
        /\ Returned /\ error = "none"
        /\ tool_call.name \in RegisteredTools
        /\ Contains(tool_result, tool_call.name)
        /\ Contains(tool_result, tool.cause)
        /\ Last(messages).type = "AIMessage"
        /\ Contains(Last(messages).content, tool_result)

\* the capability behind a registered tool raised
C7_Witness == tool.status = "raised" /\ tool.cause \in FaultCauses /\ Returned

\* C8: a call of a tool name that is not registered raises nothing: the
\* result is a not-found text with the name, wrapped in the message, and the
\* run ends normally.
C8_UnknownToolBecomesText ==
    (tool_call.called /\ tool_call.name \notin RegisteredTools) =>
        /\ Returned /\ error = "none"
        /\ Contains(tool_result, <<"n", "o", "t", " ", "f", "o", "u", "n", "d">>)
        /\ Contains(tool_result, tool_call.name)
        /\ Last(messages).type = "AIMessage"
        /\ Contains(Last(messages).content, tool_result)

\* the tool "nonexistent" was called
C8_Witness == tool_call.called /\ tool_call.name = <<"n", "o", "n", "e", "x", "i", "s", "t", "e", "n", "t">> /\ Returned

\* the mapping a request stands for
ArgMap(req) ==
    [k \in {req.arguments[i].key : i \in 1..Len(req.arguments)} |->
        (CHOOSE p \in {req.arguments[i] : i \in 1..Len(req.arguments)} : p.key = k).value]

RoundTrips ==
    /\ decoded.kind = "call"
    /\ decoded.tool_name = request.toolName
    /\ DOMAIN decoded.args = DOMAIN ArgMap(request)
    /\ \A k \in DOMAIN decoded.args : decoded.args[k] = ArgMap(request)[k]

NoDelimiter(s) == ~Contains(s, <<":">>)

ValuesWithoutDelimiter(req) ==
    \A i \in 1..Len(req.arguments) : NoDelimiter(ValueText(req.arguments[i].value))

\* C9 as stated: a request whose argument values contain no ':' decodes,
\* after encoding, to the same tool name and the same typed arguments.
C9_RoundTripAnyValue ==
    (cpc = "done" /\ ValuesWithoutDelimiter(request)) => RoundTrips

\* the requests the parser gives back as they were
Faithful(req) ==
    /\ NoDelimiter(req.toolName)
    /\ \A i \in 1..Len(req.arguments) :
         LET k == req.arguments[i].key
             v == req.arguments[i].value
         IN  /\ NoDelimiter(k) /\ ~Contains(k, <<"=">>)
             /\ v.t = "str" => (NoDelimiter(v.s) /\ ~IsDigit(v.s))
             /\ v.t = "int" => v.n >= 0

\* C9 amended: a request whose tool name and keys contain no ':', whose keys
\* contain no '=', whose string values contain no ':' and are not digit
\* strings, and whose integer values are not negative decodes, after encoding,
\* to the same tool name and the same typed arguments.
C9_RoundTrip == (cpc = "done" /\ Faithful(request)) => RoundTrips

\* a request with an integer and a string argument made the round trip
C9_Witness ==
    /\ cpc = "done"
    /\ Faithful(request)
    /\ \E i, j \in 1..Len(request.arguments) :
         /\ request.arguments[i].value.t = "int"
         /\ request.arguments[j].value.t = "str"

\* the utterance, lower-cased, has one of the words at some position
Mentions(u, words) ==
    \E w \in words : \E i \in 1..Len(u) :
        /\ i + Len(w) - 1 <= Len(u)
        /\ \A j \in 1..Len(w) : LowerChar(u[i + j - 1]) = w[j]

\* C10: the intent is news if the lower-cased utterance contains news,
\* marketing, company or business; otherwise dice if it contains dice, roll,
\* game or random; otherwise search if it contains search, web, look up or
\* find; otherwise general.
C10_ClassifyByPriority ==
    pc = "agent" =>
        LET u == Last(input).content
        IN  user_intent =
              IF Mentions(u, {<<"n", "e", "w", "s">>, <<"m", "a", "r", "k", "e", "t", "i", "n", "g">>, <<"c", "o", "m", "p", "a", "n", "y">>, <<"b", "u", "s", "i", "n", "e", "s", "s">>})
              THEN "news"
              ELSE IF Mentions(u, {<<"d", "i", "c", "e">>, <<"r", "o", "l", "l">>, <<"g", "a", "m", "e">>, <<"r", "a", "n", "d", "o", "m">>})
              THEN "dice"
              ELSE IF Mentions(u, {<<"s", "e", "a", "r", "c", "h">>, <<"w", "e", "b">>, <<"l", "o", "o", "k", " ", "u", "p">>, <<"f", "i", "n", "d">>})
              THEN "search"
              ELSE "general"

\* an utterance with a news keyword and a dice or search keyword is news
C10_Witness ==
    /\ pc = "agent"
    /\ user_intent = "news"
    /\ Mentions(Last(input).content, DiceWords \cup SearchWords)

\* the text is one or more of the characters 0..9
OnlyDecimalDigits(v) ==
    v # <<>> /\ \A i \in 1..Len(v) : v[i] \in {"0", "1", "2", "3", "4", "5", "6", "7", "8", "9"}

\* the number a text of decimal digits denotes
RECURSIVE DecimalValue(_)
DecimalValue(v) ==
    IF v = <<>> THEN 0
    ELSE DigitValue(Head(v)) * 10 ^ (Len(v) - 1) + DecimalValue(Tail(v))

\* the segments after the tool name that are key=value pairs, and for each the
\* last segment that binds its key
IsPair(part) == Contains(part, <<"=">>)
LastBinding(parts, n) ==
    /\ IsPair(parts[n])
    /\ \A m \in (n + 1)..Len(parts) :
         IsPair(parts[m]) => PartKey(parts[m]) # PartKey(parts[n])

\* C11: decoding the key=value pairs of a tool call gives, for a value of
\* decimal digits only, the integer it denotes and, for every other value, the
\* value as the string it is.
C11_DigitsBecomeIntegers ==
    (cpc = "done" /\ StartsWith(line, TOOL_CALL_PREFIX)) =>
        /\ decoded.kind = "call"
        /\ LET parts == Split(line, ":")
           IN  \A n \in 3..Len(parts) :
                 LastBinding(parts, n) =>
                    LET k == PartKey(parts[n])
                        v == PartValue(parts[n])
                    IN  /\ k \in DOMAIN decoded.args
                        /\ decoded.args[k] =
                             IF OnlyDecimalDigits(v) THEN IntVal(DecimalValue(v))
                             ELSE StrVal(v)

\* C12: whenever execute_tools has run on a message that begins with the
\* sentinel, it has produced a message and no exception has left it.
C12_ExecutorNeverFaults ==
    Len(executed) = 3 =>
        /\ pc = "END"
        /\ error = "none"
        /\ Last(messages).type = "AIMessage"

\* the text up to its first ':'
Truncated(s) == IF IndexOf(s, ":") = 0 THEN s ELSE SubSeq(s, 1, IndexOf(s, ":") - 1)

PlainKey(k) == NoDelimiter(k) /\ ~Contains(k, <<"=">>)

\* an argument of the request with a plain key and a string value with a ':'
Collides(req, i) ==
    /\ PlainKey(req.arguments[i].key)
    /\ req.arguments[i].value.t = "str"
    /\ Contains(req.arguments[i].value.s, <<":">>)

\* the segments of the line after the one that holds the key of argument i:
\* the rest of its value and the arguments after it
LaterSegments(req, i) ==
    Tail(Split(ValueText(req.arguments[i].value)
               \o EncodePairs(SubSeq(req.arguments, i + 1, Len(req.arguments))), ":"))

Rebound(req, i) ==
    \E n \in 1..Len(LaterSegments(req, i)) :
        /\ IsPair(LaterSegments(req, i)[n])
        /\ PartKey(LaterSegments(req, i)[n]) = req.arguments[i].key

\* the second segment is the tool name and only later segments give arguments
NameThenPairs ==
    LET parts == Split(line, ":")
    IN  /\ decoded.tool_name = parts[2]
        /\ \A k \in DOMAIN decoded.args :
             \E n \in 3..Len(parts) : IsPair(parts[n]) /\ PartKey(parts[n]) = k

\* the decoded value of argument i is its value cut at the first ':'
CutAtDelimiter(req, i) ==
    /\ req.arguments[i].key \in DOMAIN decoded.args
    /\ decoded.args[req.arguments[i].key] = Coerce(Truncated(req.arguments[i].value.s))

Decoded == cpc = "done" /\ decoded.kind = "call" /\ NoDelimiter(request.toolName)

Classified == pc \in {"agent", "execute_tools", "END"} \/ Len(executed) >= 2

\* the branch a message stands for, by itself
BranchOf(message) ==
    IF StartsWith(message.content, SENTINEL \o <<":">>) THEN "execute_tools" ELSE "END"

\* C14: once classify_intent has run, messages is not empty, and the branch
\* taken after the agent node is a function of the last message alone.
C14_NonEmptyAndRoutedByLast ==
    /\ Classified => messages # <<>>
    /\ AfterAgent => pc = BranchOf(messages[Len(messages)])

\* the agent answered a run and its answer, the last message, chose the branch
C14_Witness ==
    /\ AfterAgent
    /\ messages # <<>>
    /\ pc = "execute_tools"
    /\ Len(input) = 2

\* the intent of an utterance by the priority of the keyword sets
IntentByPriority(u) ==
    IF Mentions(u, NewsWords) THEN "news"
    ELSE IF Mentions(u, DiceWords) THEN "dice"
    ELSE IF Mentions(u, SearchWords) THEN "search"
    ELSE "general"

\* C15: classify_intent writes the intent, one of the four labels, and leaves
\* messages as they are; no other node changes the intent; a run that ends
\* carries the intent of the utterance it was started with.
C15_IntentWrittenOnce ==
    [][ /\ (pc = "classify_intent" /\ pc' = "agent") =>
              /\ messages' = messages
              /\ user_intent' \in {"news", "dice", "search", "general"}
              /\ user_intent' = IntentByPriority(Last(messages).content)
        /\ pc # "classify_intent" => user_intent' = user_intent
        /\ pc' = "END" => user_intent' = IntentByPriority(Last(input).content)
      ]_vars

\* a run through all three nodes ended with the intent of its utterance
C15_Witness ==
    /\ Returned
    /\ Len(executed) = 3
    /\ user_intent = "dice"
    /\ user_intent = IntentByPriority(Last(input).content)

\* C16: execute_tools only ever runs on a message its own test takes for a
\* tool call, the router and that test agree on the agent's message, and no
\* message is ever the bare text the fallback branch returns.
C16_FallbackUnreachable ==
    /\ pc = "execute_tools" => DecodeText(Last(messages).content).kind # "none"
    /\ AfterAgent =>
         ((pc = "execute_tools") <=> (DecodeText(Last(messages).content).kind # "none"))
    /\ \A i \in 1..Len(messages) : messages[i].type # "str"

\* execute_tools is about to run on a message that decodes to a request
C16_Witness ==
    /\ pc = "execute_tools"
    /\ Len(input) = 1
    /\ DecodeText(Last(messages).content).kind = "call"

\* C17: execute_tools applied to a state whose last message does not begin
\* with the sentinel calls no tool and leaves that message, with its role and
\* content, as the last message.
C17_PassThroughUnchanged ==
    (executed = <<"execute_tools">> /\ ~StartsWith(Last(input).content, SENTINEL)) =>
        /\ error = "none"
        /\ ~tool_call.called
        /\ tool.status = "idle"
        /\ Last(messages) = Last(input)

\* C19: a run started with no message stops in classify_intent with an
\* exception: the language model and the tools are never called and the run
\* never reaches END.
C19_EmptyInputFailsFast ==
    input = <<>> =>
        /\ pc \in {"classify_intent", "raised"}
        /\ llm = "idle"
        /\ ~tool_call.called /\ tool.status = "idle"
        /\ pc = "raised" => (error = "IndexError" /\ executed = <<"classify_intent">>)

\* the run with no message has raised in classify_intent
C19_Witness == input = <<>> /\ pc = "raised" /\ error = "IndexError"

====
